---- MODULE Spec2Model ----
(***************************************************************************)
(* The vessel migration engine of the logistics backend                    *)
(* (src/src/controllers/migration.controller.js) over the two collections  *)
(* it reads and writes, shipments and vessels, together with the shipment  *)
(* and vessel handlers that set, clear or delete a vessel reference.       *)
(*                                                                         *)
(* A stored field is a tagged value: the field is missing from the         *)
(* document, holds null, or holds a string.  A string is a sequence of     *)
(* one-character strings, so that $trim / $toUpper / String.trim are       *)
(* computed and not assumed.  Filters and updates are modelled as the      *)
(* store receives them (MongoDB semantics of $exists, $ne, $in, $set,      *)
(* $unset, $trim, $toUpper, $ifNull).                                      *)
(***************************************************************************)
EXTENDS Integers, Sequences, FiniteSets, TLC

\* ------------------------------------------------------------------ bounds
NumShipments == 3      \* legacy shipments in the store the migration starts on
MaxShipments == 2      \* shipments in the store while shipment handlers insert
MaxVessels   == 2      \* vessel ids the store ever allots
NumRuns      == 2      \* executeMigration requests served at the same time

\* ----------------------------------------------------------- field values
Missing == [k |-> "missing", s |-> <<>>]
Null    == [k |-> "null", s |-> <<>>]
Str(s)  == [k |-> "str", s |-> s]

NoId   == [k |-> "missing", id |-> 0]
NullId == [k |-> "null", id |-> 0]
Ref(i) == [k |-> "id", id |-> i]

\* ------------------------------------------------------ string operations
UpperChar(c) ==
  CASE c = "e" -> "E"
    [] c = "j" -> "J"
    [] c = "p" -> "P"
    [] OTHER   -> c

ToUpperCase(s) == IF s = <<>> THEN <<>> ELSE [i \in 1..Len(s) |-> UpperChar(s[i])]

RECURSIVE TrimLeft(_)
TrimLeft(s) == IF s # <<>> /\ Head(s) = " " THEN TrimLeft(Tail(s)) ELSE s

RECURSIVE TrimRight(_)
TrimRight(s) ==
  IF s # <<>> /\ s[Len(s)] = " " THEN TrimRight(SubSeq(s, 1, Len(s) - 1)) ELSE s

Trim(s) == TrimRight(TrimLeft(s))

\* aggregation expressions: $toUpper of null or a missing field is "",
\* $trim of null or a missing field is null
MongoToUpper(v) == IF v.k = "str" THEN Str(ToUpperCase(v.s)) ELSE Str(<<>>)
MongoTrim(v)    == IF v.k = "str" THEN Str(Trim(v.s)) ELSE Null
MongoIfNull(v, d) == IF v.k = "str" THEN v ELSE d

\* JavaScript `x || null` on a string
OrNull(s) == IF s = <<>> THEN Null ELSE Str(s)

Min(S) == CHOOSE x \in S : \A y \in S : x <= y

\* ------------------------------------------------------------------ state
VARIABLES
  shipments,     \* shipment id -> [vesselName, jobNumber, pod, vesselId]
  vessels,       \* vessel id -> [vesselName, jobNumber, pod]
  nextVesselId,  \* the id the next inserted Vessel gets (ids are never reused)
  last,          \* the last handler run: its request, its locals, its response
  cleaned,       \* a confirmed Cleanup has stripped the legacy fields
  execClean,     \* a real Execute has completed and no shipment changed since
  runs,          \* request -> the executeMigration call serving it, step by step
  cleanupRun     \* the cleanupOldFields call in progress, step by step

vars ==
  <<shipments, vessels, nextVesselId, last, cleaned, execClean, runs, cleanupRun>>

\* -------------------------------------------------- filters of the engine
\* { vesselName: { $exists: true, $ne: null, $ne: "" } }: the object literal
\* has the key $ne twice, JavaScript keeps the last one, so the store receives
\* { $exists: true, $ne: "" } and a null vesselName passes
VesselNameFilter(d) == d.vesselName.k # "missing" /\ d.vesselName # Str(<<>>)

\* the condition on vesselId left out of the filter
VesselIdAbsentDropped(d) == d.vesselId.k \in {"missing", "null", "id"}

\* { vesselId: { $exists: false } }
VesselIdAbsent(d) == d.vesselId.k = "missing"

\* { vesselId: { $exists: true, $ne: null } }
MigratedFilter(d) == d.vesselId.k = "id"

UnmigratedFilter(d) == VesselNameFilter(d) /\ VesselIdAbsent(d)

UnmigratedIds(ships) == {i \in DOMAIN ships : UnmigratedFilter(ships[i])}
MigratedIds(ships)   == {i \in DOMAIN ships : MigratedFilter(ships[i])}

\* ---------------------------------------------------------------- grouping
\* $group _id of analyzeMigration and of the dry run: $toUpper only
AnalyzeKey(d) ==
  [vesselName |-> MongoToUpper(d.vesselName).s,
   jobNumber  |-> MongoIfNull(MongoToUpper(d.jobNumber), Str(<<>>)).s,
   pod        |-> MongoIfNull(MongoToUpper(d.pod), Str(<<>>)).s]

\* the real run's key with a placeholder for a missing jobNumber
ExecuteKeyPlaceholder(d) ==
  [vesselName |-> MongoToUpper(MongoTrim(d.vesselName)).s,
   jobNumber  |-> MongoIfNull(MongoTrim(d.jobNumber), Str(<<"N">>)).s,
   pod        |-> MongoIfNull(MongoToUpper(MongoTrim(d.pod)), Str(<<>>)).s]

\* $group _id of the real run: $trim, then $toUpper
ExecuteKey(d) ==
  [vesselName |-> MongoToUpper(MongoTrim(d.vesselName)).s,
   jobNumber  |-> MongoIfNull(MongoToUpper(MongoTrim(d.jobNumber)), Str(<<>>)).s,
   pod        |-> MongoIfNull(MongoToUpper(MongoTrim(d.pod)), Str(<<>>)).s]

AnalyzeGroups(ships) == {AnalyzeKey(ships[i]) : i \in UnmigratedIds(ships)}
ExecuteGroups(ships) == {ExecuteKey(ships[i]) : i \in UnmigratedIds(ships)}

\* shipmentIds: { $push: "$_id" } of one group
GroupShipmentIds(ships, key) ==
  {i \in UnmigratedIds(ships) : ExecuteKey(ships[i]) = key}

\* ------------------------------------------------------- vessel resolution
\* the lookup without the "" alternative: { jobNumber: null } alone
FindVesselNullOnly(vs, vesselName, jobNumber) ==
  IF jobNumber.k = "str"
    THEN {v \in DOMAIN vs :
            vs[v].vesselName = Str(vesselName) /\ vs[v].jobNumber = jobNumber}
    ELSE {v \in DOMAIN vs :
            /\ vs[v].vesselName = Str(vesselName)
            /\ vs[v].jobNumber \in {Null, Missing}}

\* variant: the lookup never finds a Vessel
FindVesselNone(vs, vesselName, jobNumber) == {}

\* Vessel.findOne of executeMigration: by vesselName and jobNumber when the
\* jobNumber is non-empty, else by vesselName and a jobNumber that is null,
\* "" or missing.  The result is the set of matching ids.
FindVessel(vs, vesselName, jobNumber) ==
  IF jobNumber.k = "str"
    THEN {v \in DOMAIN vs :
            vs[v].vesselName = Str(vesselName) /\ vs[v].jobNumber = jobNumber}
    ELSE {v \in DOMAIN vs :
            /\ vs[v].vesselName = Str(vesselName)
            /\ vs[v].jobNumber \in {Null, Str(<<>>), Missing}}

\* the schema's setters on a String path: trim, uppercase
SchemaString(v) == IF v.k = "str" THEN Str(ToUpperCase(Trim(v.s))) ELSE v

\* vesselData of executeMigration, cast by the Vessel schema
NewVessel(vesselName, jobNumber, pod) ==
  [vesselName |-> SchemaString(Str(vesselName)),
   jobNumber  |-> IF jobNumber.k = "str" /\ Trim(jobNumber.s) # <<>>
                    THEN SchemaString(Str(Trim(jobNumber.s))) ELSE Missing,
   pod        |-> IF pod.k = "str" /\ Trim(pod.s) # <<>>
                    THEN SchemaString(Str(Trim(pod.s))) ELSE Missing]

\* vesselName: { required: true }: save() rejects a missing or empty name
VesselValid(v) == v.vesselName.k = "str" /\ v.vesselName.s # <<>>

\* ------------------------------------------------------- the real Execute
\* the save written as an upsert on vesselName
SaveVesselUpsert(vs, id, fresh) ==
  [v \in DOMAIN vs \cup {id} |->
     IF v = id \/ vs[v].vesselName = fresh.vesselName THEN fresh ELSE vs[v]]

\* vessel = new Vessel(vesselData); await vessel.save(): an insert under a
\* new _id
SaveVessel(vs, id, fresh) ==
  [v \in DOMAIN vs \cup {id} |-> IF v = id THEN fresh ELSE vs[v]]

\* the update written as { $set: { vesselId }, $unset: { vesselName: "" } }
SetVesselIdDropName(d, vid) ==
  [d EXCEPT !.vesselId = Ref(vid), !.vesselName = Missing]

\* { $set: { vesselId: vessel._id } } on one shipment
SetVesselId(d, vid) == [d EXCEPT !.vesselId = Ref(vid)]

\* One iteration of `for (const vesselGroup of uniqueVessels)`: st is the
\* store and the migrationLog so far, ids the group's shipmentIds.
ProcessGroup(st, key, ids) ==
  LET vesselName == key.vesselName
      jobNumber  == OrNull(key.jobNumber)
      pod        == OrNull(key.pod)
      found      == FindVessel(st.vessels, vesselName, jobNumber)
      fresh      == NewVessel(vesselName, jobNumber, pod)
  IN IF found = {} /\ ~VesselValid(fresh)
       THEN \* vessel.save() throws, the catch records the group
            [st EXCEPT !.errors = Append(@, key)]
       ELSE LET vid == IF found # {} THEN Min(found) ELSE st.nextVesselId
                \* updateMany({_id: {$in: shipmentIds}, vesselId: {$exists: false}})
                hit == {i \in ids \cap DOMAIN st.shipments :
                          VesselIdAbsent(st.shipments[i])}
            IN [shipments |->
                  [i \in DOMAIN st.shipments |->
                     IF i \in hit
                       THEN SetVesselId(st.shipments[i], vid)
                       ELSE st.shipments[i]],
                vessels |->
                  IF found # {} THEN st.vessels
                  ELSE SaveVessel(st.vessels, vid, fresh),
                nextVesselId |->
                  IF found # {} THEN st.nextVesselId ELSE st.nextVesselId + 1,
                vesselsCreated |->
                  IF found # {} THEN st.vesselsCreated ELSE st.vesselsCreated + 1,
                shipmentsUpdated |-> st.shipmentsUpdated + Cardinality(hit),
                errors |-> st.errors]

\* the loop over uniqueVessels, in the order the aggregate returned them;
\* snap is the shipment collection as the aggregate saw it
RECURSIVE RunGroups(_, _, _)
RunGroups(st, order, snap) ==
  IF order = <<>> THEN st
  ELSE RunGroups(ProcessGroup(st, Head(order), GroupShipmentIds(snap, Head(order))),
                 Tail(order), snap)

\* every order in which $group can return the groups
RECURSIVE Orders(_)
Orders(S) ==
  IF S = {} THEN {<<>>}
  ELSE UNION {{<<x>> \o t : t \in Orders(S \ {x})} : x \in S}

\* request parameters as the query string carries them
DryRunParams  == {"absent", "true", "TRUE"}
ConfirmParams == {"absent", "true", "yes"}
VerifyFirstParams == {"absent", "true", "false"}

\* status codes of ApiError.badRequest and ApiError.notFound
BadRequest == 400
NotFound   == 404

\* the flag compared with a value a query string never carries
IsDryRunNever(dryRun) == dryRun = "yes"

\* variant: every request that carries the parameter is a simulation
IsDryRunPresent(dryRun) == dryRun # "absent"

\* const { dryRun = false } = req.query; if (dryRun === "true")
IsDryRun(dryRun) == dryRun = "true"

\* the default of verifyFirst left out
VerifyFirstNoDefault(param) == IF param = "absent" THEN "false" ELSE param

\* const { confirm, verifyFirst = "true" } = req.query
VerifyFirstDefault(param) == IF param = "absent" THEN "true" ELSE param

\* any confirm parameter taken as a confirmation
NotConfirmedAbsent(confirm) == confirm = "absent"

\* confirm !== "true"
NotConfirmed(confirm) == confirm # "true"

\* ------------------------------------------------------------ the handlers
\* GET /migration/analyze
AnalyzeMigration ==
  /\ last' = [op |-> "analyze", code |-> 200,
              unmigratedShipments |-> Cardinality(UnmigratedIds(shipments)),
              migratedShipments |-> Cardinality(MigratedIds(shipments)),
              uniqueVesselCombinations |-> Cardinality(AnalyzeGroups(shipments)),
              existingVessels |-> Cardinality(DOMAIN vessels)]
  /\ UNCHANGED <<shipments, vessels, nextVesselId, cleaned, execClean, runs, cleanupRun>>

\* POST /migration/execute
ExecuteMigration ==
  \E dryRun \in DryRunParams :
    IF IsDryRun(dryRun)
      THEN /\ last' = [op |-> "execute", code |-> 200, mode |-> "dry",
                       dryRun |-> dryRun,
                       vesselsToCreate |-> Cardinality(AnalyzeGroups(shipments)),
                       totalShipmentsToMigrate |->
                         Cardinality(UnmigratedIds(shipments))]
           /\ UNCHANGED <<shipments, vessels, nextVesselId, cleaned, execClean, runs, cleanupRun>>
      ELSE \E order \in Orders(ExecuteGroups(shipments)) :
             LET st0 == [shipments |-> shipments, vessels |-> vessels,
                         nextVesselId |-> nextVesselId, vesselsCreated |-> 0,
                         shipmentsUpdated |-> 0, errors |-> <<>>]
                 st  == RunGroups(st0, order, shipments)
             IN /\ st.nextVesselId <= MaxVessels + 1
                /\ shipments' = st.shipments
                /\ vessels' = st.vessels
                /\ nextVesselId' = st.nextVesselId
                /\ last' = [op |-> "execute", code |-> 200, mode |-> "real",
                            dryRun |-> dryRun,
                            vesselsCreated |-> st.vesselsCreated,
                            shipmentsUpdated |-> st.shipmentsUpdated,
                            errors |-> st.errors,
                            grouped |-> UnmigratedIds(shipments),
                            rerun |-> execClean]
                /\ execClean' = TRUE
                /\ UNCHANGED <<cleaned, runs, cleanupRun>>

\* Math.min(10, migrated)
SampleCap == 10
SampleSize(migrated) == IF migrated < SampleCap THEN migrated ELSE SampleCap

\* the $match of the sample pipeline
SampleFilter(d) == MigratedFilter(d) /\ d.vesselName.k = "str"

\* $lookup, $unwind (preserving a missing vessel), then
\* $eq: [$toUpper: "$vesselName", $toUpper: "$vessel.vesselName"]
SampleMatch(d, vs) ==
  MongoToUpper(d.vesselName) =
    MongoToUpper(IF d.vesselId.id \in DOMAIN vs
                   THEN vs[d.vesselId.id].vesselName ELSE Missing)

\* the orphan filter without its negation
OrphanedCountExisting(ships, vs) ==
  Cardinality({i \in MigratedIds(ships) : ships[i].vesselId.id \in DOMAIN vs})

\* vesselIds = [...new Set(docs.map(s => s.vesselId))]: the Set holds ObjectId
\* objects and compares them by identity, so it keeps one entry per shipment;
\* the filter then counts the entries whose id string matches no Vessel
OrphanedCount(ships, vs) ==
  Cardinality({i \in MigratedIds(ships) : ships[i].vesselId.id \notin DOMAIN vs})

\* the status without the sample check
VerifyStatusNoSample(unmigrated, orphanedCount, mismatches) ==
  IF unmigrated = 0 /\ orphanedCount = 0 THEN "PASSED" ELSE "ISSUES_FOUND"

\* unmigrated === 0 && orphanedCount === 0 && mismatches === 0
VerifyStatus(unmigrated, orphanedCount, mismatches) ==
  IF unmigrated = 0 /\ orphanedCount = 0 /\ mismatches = 0
    THEN "PASSED" ELSE "ISSUES_FOUND"

\* GET /migration/verify
VerifyMigration ==
  LET unmigrated == Cardinality(UnmigratedIds(shipments))
      migrated   == Cardinality(MigratedIds(shipments))
      orphaned   == OrphanedCount(shipments, vessels)
      pool       == {i \in DOMAIN shipments : SampleFilter(shipments[i])}
      size       == IF SampleSize(migrated) < Cardinality(pool)
                      THEN SampleSize(migrated) ELSE Cardinality(pool)
  IN \E samples \in {S \in SUBSET pool : Cardinality(S) = size} :
       LET mismatches ==
             Cardinality({i \in samples : ~SampleMatch(shipments[i], vessels)})
       IN /\ last' = [op |-> "verify", code |-> 200,
                      unmigratedShipments |-> unmigrated,
                      migratedShipments |-> migrated,
                      orphanedVesselIds |-> orphaned,
                      samplesChecked |-> SampleSize(migrated),
                      mismatches |-> mismatches,
                      status |-> VerifyStatus(unmigrated, orphaned, mismatches)]
          /\ UNCHANGED <<shipments, vessels, nextVesselId, cleaned, execClean, runs, cleanupRun>>

\* updateMany({vesselId: {$exists: true, $ne: null}}, {$unset: {vesselId: ""}})
UnsetVesselId(ships) ==
  [i \in DOMAIN ships |->
     IF MigratedFilter(ships[i]) THEN [ships[i] EXCEPT !.vesselId = NoId]
     ELSE ships[i]]

\* POST /migration/rollback
RollbackMigration ==
  \E confirm \in ConfirmParams :
    IF NotConfirmed(confirm)
      THEN /\ last' = [op |-> "rollback", code |-> 200, mode |-> "preview",
                       confirm |-> confirm,
                       shipmentsToRollback |-> Cardinality(MigratedIds(shipments))]
           /\ UNCHANGED <<shipments, vessels, nextVesselId, cleaned, execClean, runs, cleanupRun>>
      ELSE /\ shipments' = UnsetVesselId(shipments)
           /\ last' = [op |-> "rollback", code |-> 200, mode |-> "done",
                       confirm |-> confirm,
                       shipmentsRolledBack |-> Cardinality(MigratedIds(shipments))]
           /\ execClean' = (execClean /\ MigratedIds(shipments) = {})
           /\ UNCHANGED <<vessels, nextVesselId, cleaned, runs, cleanupRun>>

\* the strip with the filter { vesselId: { $exists: true, $ne: null } }
UnsetLegacyFieldsMigrated(ships) ==
  [i \in DOMAIN ships |->
     IF MigratedFilter(ships[i])
       THEN [ships[i] EXCEPT !.vesselName = Missing, !.pod = Missing,
                             !.jobNumber = Missing]
       ELSE ships[i]]

\* updateMany({}, {$unset: {vesselName: "", pod: "", jobNumber: ""}})
UnsetLegacyFields(ships) ==
  [i \in DOMAIN ships |->
     [ships[i] EXCEPT !.vesselName = Missing, !.pod = Missing,
                      !.jobNumber = Missing]]

\* POST /migration/cleanup; verifyFirst defaults to "true"
CleanupOldFields ==
  \E confirm \in ConfirmParams, vfParam \in VerifyFirstParams :
    LET verifyFirst == VerifyFirstDefault(vfParam)
        unmigrated  == Cardinality(UnmigratedIds(shipments))
        req == [op |-> "cleanup", confirm |-> confirm, verifyFirst |-> vfParam]
    IN IF verifyFirst = "true" /\ unmigrated > 0
         THEN /\ last' = [code |-> BadRequest, mode |-> "refused",
                          unmigrated |-> unmigrated] @@ req
              /\ UNCHANGED <<shipments, vessels, nextVesselId, cleaned, execClean, runs, cleanupRun>>
         ELSE IF NotConfirmed(confirm)
           THEN /\ last' =
                     [code |-> 200, mode |-> "preview",
                      shipmentsWithVesselName |->
                        Cardinality({i \in DOMAIN shipments :
                                       shipments[i].vesselName.k = "str"}),
                      shipmentsWithPod |->
                        Cardinality({i \in DOMAIN shipments :
                                       shipments[i].pod.k = "str"}),
                      shipmentsWithJobNumber |->
                        Cardinality({i \in DOMAIN shipments :
                                       shipments[i].jobNumber.k = "str"})] @@ req
                /\ UNCHANGED <<shipments, vessels, nextVesselId, cleaned, execClean, runs, cleanupRun>>
           ELSE /\ shipments' = UnsetLegacyFields(shipments)
                /\ last' =
                     [code |-> 200, mode |-> "done",
                      shipmentsUpdated |->
                        Cardinality({i \in DOMAIN shipments :
                                       UnsetLegacyFields(shipments)[i] # shipments[i]})]
                     @@ req
                /\ cleaned' = TRUE
                /\ execClean' = (execClean /\ shipments' = shipments)
                /\ UNCHANGED <<vessels, nextVesselId, runs, cleanupRun>>

\* ------------------------------------------------- shipment handlers (new)
\* the vesselId of a request body: not sent, null, "", a malformed id, or a
\* well-formed ObjectId
VesselIdInputs ==
  {[k |-> x, id |-> 0] : x \in {"absent", "null", "empty", "malformed"}}
    \cup {Ref(i) : i \in 1..MaxVessels}

NextShipmentId == Cardinality(DOMAIN shipments) + 1

Insert(ships, id, d) ==
  [i \in DOMAIN ships \cup {id} |-> IF i = id THEN d ELSE ships[i]]

\* POST /shipments (vesselId version): vesselId is used when it is a valid
\* id of an existing Vessel, ignored when it is falsy or malformed, and the
\* request fails when it is valid and matches no Vessel
CreateShipment ==
  \E vesselId \in VesselIdInputs :
    /\ NextShipmentId <= MaxShipments
    /\ IF vesselId.k = "id" /\ vesselId.id \notin DOMAIN vessels
         THEN /\ last' = [op |-> "createShipment", code |-> BadRequest]
              /\ UNCHANGED <<shipments, vessels, nextVesselId, cleaned, execClean, runs, cleanupRun>>
         ELSE /\ shipments' =
                   Insert(shipments, NextShipmentId,
                          [vesselName |-> Missing, jobNumber |-> Missing,
                           pod |-> Missing,
                           vesselId |-> IF vesselId.k = "id"
                                          THEN Ref(vesselId.id) ELSE NoId])
              /\ last' = [op |-> "createShipment", code |-> 201]
              /\ execClean' = FALSE
              /\ UNCHANGED <<vessels, nextVesselId, cleaned, runs, cleanupRun>>

\* PUT /shipments/:id (vesselId version).  sanitizeInput turns "" into
\* undefined before the vessel handling reads it, so only null clears.
UpdateShipment ==
  \E id \in DOMAIN shipments, vesselId \in VesselIdInputs :
    LET req == [op |-> "updateShipment"]
    IN IF vesselId.k = "absent"
         THEN /\ last' = [code |-> 200] @@ req
              /\ UNCHANGED <<shipments, vessels, nextVesselId, cleaned, execClean, runs, cleanupRun>>
       ELSE IF vesselId.k = "id" /\ vesselId.id \in DOMAIN vessels
         THEN /\ shipments' = [shipments EXCEPT ![id].vesselId = Ref(vesselId.id)]
              /\ last' = [code |-> 200] @@ req
              /\ execClean' = (execClean /\ shipments' = shipments)
              /\ UNCHANGED <<vessels, nextVesselId, cleaned, runs, cleanupRun>>
       ELSE IF vesselId.k = "null"
         THEN /\ shipments' = [shipments EXCEPT ![id].vesselId = NullId]
              /\ last' = [code |-> 200] @@ req
              /\ execClean' = (execClean /\ shipments' = shipments)
              /\ UNCHANGED <<vessels, nextVesselId, cleaned, runs, cleanupRun>>
       ELSE /\ last' = [code |-> BadRequest] @@ req
            /\ UNCHANGED <<shipments, vessels, nextVesselId, cleaned, execClean, runs, cleanupRun>>

\* POST /shipments/bulk-assign-vessel
BulkAssignVessel ==
  \E ids \in SUBSET (1..MaxShipments), vesselId \in 1..MaxVessels :
    LET req == [op |-> "bulkAssignVessel"]
        matched == ids \cap DOMAIN shipments
    IN /\ ids # {}
       /\ IF vesselId \notin DOMAIN vessels \/ matched = {}
            THEN /\ last' = [code |-> NotFound] @@ req
                 /\ UNCHANGED <<shipments, vessels, nextVesselId, cleaned, execClean, runs, cleanupRun>>
            ELSE /\ shipments' =
                      [i \in DOMAIN shipments |->
                         IF i \in matched
                           THEN [shipments[i] EXCEPT
                                   !.vesselId = Ref(vesselId),
                                   !.vesselName = vessels[vesselId].vesselName]
                           ELSE shipments[i]]
                 /\ last' = [code |-> 200] @@ req
                 /\ execClean' = (execClean /\ shipments' = shipments)
                 /\ UNCHANGED <<vessels, nextVesselId, cleaned, runs, cleanupRun>>

\* DELETE /vessels/:id: findByIdAndDelete, shipments are not touched
DeleteVessel ==
  \E id \in 1..MaxVessels :
    IF id \in DOMAIN vessels
      THEN /\ vessels' = [v \in DOMAIN vessels \ {id} |-> vessels[v]]
           /\ last' = [op |-> "deleteVessel", code |-> 200]
           /\ UNCHANGED <<shipments, nextVesselId, cleaned, execClean, runs, cleanupRun>>
      ELSE /\ last' = [op |-> "deleteVessel", code |-> NotFound]
           /\ UNCHANGED <<shipments, vessels, nextVesselId, cleaned, execClean, runs, cleanupRun>>

\* ---------------------------------------------- shipment handler (legacy)
\* the legacy fields as a request body can carry them: a truthy string or
\* nothing (a falsy value is not written)
LegacyNameInputs == {Missing, Str(<<"e">>), Str(<<" ">>)}
LegacyJobInputs  == {Missing, Str(<<"j">>)}
LegacyPodInputs  == {Missing, Str(<<"p">>)}

\* POST /shipments (vesselName version)
CreateShipmentLegacy ==
  \E vesselName \in LegacyNameInputs, jobNumber \in LegacyJobInputs,
     pod \in LegacyPodInputs :
    /\ NextShipmentId <= MaxShipments
    /\ shipments' =
         Insert(shipments, NextShipmentId,
                [vesselName |-> vesselName, jobNumber |-> jobNumber,
                 pod |-> pod, vesselId |-> NoId])
    /\ last' = [op |-> "createShipmentLegacy", code |-> 201]
    /\ execClean' = FALSE
    /\ UNCHANGED <<vessels, nextVesselId, cleaned, runs, cleanupRun>>

\* ------------------------------------------- executeMigration step by step
\* The real run of executeMigration as the store sees it when requests are
\* served at the same time: each await is one step.  The aggregate reads the
\* collection once; findOne and save are separate operations; updateMany
\* matches and modifies one document at a time.
Procs == 1..NumRuns

\* migrationLog and the locals of one call before it starts.  started,
\* updated and overlapped record, for the properties, the Vessel ids present
\* at the start, the shipments this call modified, and whether another call
\* was in progress at any time during this one.
IdleRun ==
  [pc |-> "idle", snap |-> <<>>, order |-> <<>>, vid |-> 0, todo |-> {},
   vesselsCreated |-> 0, shipmentsUpdated |-> 0, errors |-> <<>>,
   started |-> {}, updated |-> {}, overlapped |-> FALSE]

\* a call between its aggregate and its response
Active(r) == r.pc \notin {"idle", "done", "crashed"}

\* the next iteration of the for loop, or the response after the last one
NextGroup(r) ==
  [r EXCEPT !.order = Tail(@), !.vid = 0, !.todo = {},
            !.pc = IF Tail(r.order) = <<>> THEN "respond" ELSE "find"]

\* Step 1: Shipment.aggregate([$match, $group])
ExecStart(p) ==
  /\ runs[p].pc = "idle"
  /\ \E order \in Orders(ExecuteGroups(shipments)) :
       runs' =
         [q \in Procs |->
            IF q = p
              THEN [IdleRun EXCEPT
                      !.pc = IF order = <<>> THEN "respond" ELSE "find",
                      !.snap = shipments, !.order = order,
                      !.started = DOMAIN vessels,
                      !.overlapped = \E o \in Procs \ {p} : Active(runs[o])]
              ELSE IF Active(runs[q]) THEN [runs[q] EXCEPT !.overlapped = TRUE]
              ELSE runs[q]]
  /\ UNCHANGED <<shipments, vessels, nextVesselId, last, cleaned, execClean, cleanupRun>>

\* Step 2, first half: Vessel.findOne
ExecFind(p) ==
  /\ runs[p].pc = "find"
  /\ LET key   == Head(runs[p].order)
         found == FindVessel(vessels, key.vesselName, OrNull(key.jobNumber))
     IN runs' =
          [runs EXCEPT ![p] =
             IF found = {} THEN [@ EXCEPT !.pc = "save"]
             ELSE [@ EXCEPT !.pc = "update", !.vid = Min(found),
                            !.todo = GroupShipmentIds(runs[p].snap, key)]]
  /\ UNCHANGED <<shipments, vessels, nextVesselId, last, cleaned, execClean, cleanupRun>>

\* Step 2, second half: new Vessel(vesselData).save(); a validation error is
\* caught and recorded, and the loop goes on with the next group
ExecSave(p) ==
  /\ runs[p].pc = "save"
  /\ LET key   == Head(runs[p].order)
         fresh == NewVessel(key.vesselName, OrNull(key.jobNumber), OrNull(key.pod))
     IN IF ~VesselValid(fresh)
          THEN /\ runs' = [runs EXCEPT ![p] =
                             NextGroup([@ EXCEPT !.errors = Append(@, key)])]
               /\ UNCHANGED <<vessels, nextVesselId>>
          ELSE /\ nextVesselId <= MaxVessels
               /\ vessels' = SaveVessel(vessels, nextVesselId, fresh)
               /\ nextVesselId' = nextVesselId + 1
               /\ runs' = [runs EXCEPT ![p] =
                             [@ EXCEPT !.pc = "update", !.vid = nextVesselId,
                                       !.vesselsCreated = @ + 1,
                                       !.todo = GroupShipmentIds(runs[p].snap, key)]]
  /\ UNCHANGED <<shipments, last, cleaned, execClean, cleanupRun>>

\* Step 3: updateMany({_id: {$in: shipmentIds}, vesselId: {$exists: false}},
\* {$set: {vesselId}}), one document of shipmentIds per step: the document is
\* modified, and counted in modifiedCount, when it still matches the filter
ExecUpdate(p) ==
  /\ runs[p].pc = "update"
  /\ \E i \in runs[p].todo :
       LET hit  == i \in DOMAIN shipments /\ VesselIdAbsent(shipments[i])
           r    == [runs[p] EXCEPT
                      !.todo = @ \ {i},
                      !.shipmentsUpdated = IF hit THEN @ + 1 ELSE @,
                      !.updated = IF hit THEN @ \cup {i} ELSE @]
       IN /\ shipments' =
               IF hit THEN [shipments EXCEPT ![i] = SetVesselId(@, runs[p].vid)]
               ELSE shipments
          /\ runs' = [runs EXCEPT ![p] = IF r.todo = {} THEN NextGroup(r) ELSE r]
  /\ UNCHANGED <<vessels, nextVesselId, last, cleaned, execClean, cleanupRun>>

\* variant: a rejected store call ends the loop
ExecFailAbort(p) ==
  /\ runs[p].pc \in {"find", "save", "update"}
  /\ runs' = [runs EXCEPT ![p] =
                [@ EXCEPT !.errors = Append(@, Head(runs[p].order)),
                          !.order = <<>>, !.vid = 0, !.todo = {},
                          !.pc = "respond"]]
  /\ UNCHANGED <<shipments, vessels, nextVesselId, last, cleaned, execClean, cleanupRun>>

\* catch (error) { migrationLog.errors.push(...) }: the store rejects the
\* findOne, the save or the updateMany of the current group (the updateMany
\* after any number of its documents); the group is recorded once and the
\* loop goes on with the next group
ExecFail(p) ==
  /\ runs[p].pc \in {"find", "save", "update"}
  /\ runs' = [runs EXCEPT ![p] =
                NextGroup([@ EXCEPT !.errors = Append(@, Head(runs[p].order))])]
  /\ UNCHANGED <<shipments, vessels, nextVesselId, last, cleaned, execClean, cleanupRun>>

\* the server process stops while the request is being served: nothing more
\* of the call is executed and no response is sent
ExecCrash(p) ==
  /\ Active(runs[p])
  /\ runs' = [runs EXCEPT ![p].pc = "crashed"]
  /\ UNCHANGED <<shipments, vessels, nextVesselId, last, cleaned, execClean, cleanupRun>>

\* the response: the migrationLog
ExecRespond(p) ==
  /\ runs[p].pc = "respond"
  /\ last' = [op |-> "execute", code |-> 200, mode |-> "real",
              dryRun |-> "absent",
              vesselsCreated |-> runs[p].vesselsCreated,
              shipmentsUpdated |-> runs[p].shipmentsUpdated,
              errors |-> runs[p].errors,
              grouped |-> UnmigratedIds(runs[p].snap),
              rerun |-> FALSE]
  /\ runs' = [runs EXCEPT ![p].pc = "done"]
  /\ UNCHANGED <<shipments, vessels, nextVesselId, cleaned, execClean, cleanupRun>>

\* -------------------------------------------- Cleanup, one store call a step
\* no cleanupOldFields call in progress
IdleCleanup == [pc |-> "idle", confirm |-> "absent", verifyFirst |-> "absent"]

\* if (verifyFirst === "true") { countDocuments(...); if (unmigrated > 0) throw }
CleanupCheck ==
  /\ cleanupRun.pc = "idle"
  /\ \E confirm \in ConfirmParams, vfParam \in VerifyFirstParams :
       LET verifyFirst == VerifyFirstDefault(vfParam)
           unmigrated  == Cardinality(UnmigratedIds(shipments))
       IN IF verifyFirst = "true" /\ unmigrated > 0
            THEN /\ last' = [op |-> "cleanup", confirm |-> confirm,
                             verifyFirst |-> vfParam, code |-> BadRequest,
                             mode |-> "refused", unmigrated |-> unmigrated]
                 /\ UNCHANGED cleanupRun
            ELSE /\ cleanupRun' = [pc |-> "checked", confirm |-> confirm,
                                   verifyFirst |-> vfParam]
                 /\ UNCHANGED last
  /\ UNCHANGED <<shipments, vessels, nextVesselId, cleaned, execClean, runs>>

\* the rest of the call: the preview counts, or updateMany({}, {$unset: ...})
CleanupApply ==
  /\ cleanupRun.pc = "checked"
  /\ LET req == [op |-> "cleanup", confirm |-> cleanupRun.confirm,
                 verifyFirst |-> cleanupRun.verifyFirst]
     IN IF NotConfirmed(cleanupRun.confirm)
          THEN /\ last' =
                    [code |-> 200, mode |-> "preview",
                     shipmentsWithVesselName |->
                       Cardinality({i \in DOMAIN shipments :
                                      shipments[i].vesselName.k = "str"}),
                     shipmentsWithPod |->
                       Cardinality({i \in DOMAIN shipments :
                                      shipments[i].pod.k = "str"}),
                     shipmentsWithJobNumber |->
                       Cardinality({i \in DOMAIN shipments :
                                      shipments[i].jobNumber.k = "str"})] @@ req
               /\ UNCHANGED <<shipments, cleaned, execClean>>
          ELSE /\ shipments' = UnsetLegacyFields(shipments)
               /\ last' =
                    [code |-> 200, mode |-> "done",
                     shipmentsUpdated |->
                       Cardinality({i \in DOMAIN shipments :
                                      UnsetLegacyFields(shipments)[i] # shipments[i]})]
                    @@ req
               /\ cleaned' = TRUE
               /\ execClean' = (execClean /\ shipments' = shipments)
  /\ cleanupRun' = IdleCleanup
  /\ UNCHANGED <<vessels, nextVesselId, runs>>

\* ------------------------------------------------------ the initial store
\* The store as the migration finds it: shipments written before the Vessel
\* entity existed carry the legacy fields and no vesselId.  The documents
\* vary one field at a time around a shipment of vessel "e": the stored
\* representations of an unusable vesselName, the two spellings of the name,
\* the representations of an empty jobNumber, a jobNumber, a pod.
Legacy(vesselName, jobNumber, pod) ==
  [vesselName |-> vesselName, jobNumber |-> jobNumber, pod |-> pod,
   vesselId |-> NoId]

LegacyDocs ==
  << Legacy(Missing, Missing, Missing),
     Legacy(Null, Missing, Missing),
     Legacy(Str(<<>>), Missing, Missing),
     Legacy(Str(<<" ">>), Missing, Missing),
     Legacy(Str(<<"e">>), Missing, Missing),
     Legacy(Str(<<"e">>), Null, Missing),
     Legacy(Str(<<"e">>), Str(<<>>), Missing),
     Legacy(Str(<<"e">>), Str(<<"j">>), Missing),
     Legacy(Str(<<"e">>), Missing, Str(<<"p">>)),
     Legacy(Str(<<"E", " ">>), Missing, Missing),
     Legacy(Str(<<"E", " ">>), Str(<<"j">>), Str(<<"p">>)) >>

LegacyDoc(k) == LegacyDocs[k]

NumLegacyDocs == Len(LegacyDocs)

\* shipment ids are opaque, so the documents are listed in one order only
LegacyStores(n) ==
  {[i \in 1..n |-> LegacyDoc(f[i])] :
     f \in {g \in [1..n -> 1..NumLegacyDocs] :
              \A i \in 1..n : \A j \in 1..n : i < j => g[i] <= g[j]}}

\* Vessels present before the migration: none, or one that an operator
\* created, with each stored representation of an empty jobNumber
InitialVessels ==
  {<<>>}
    \cup {[v \in {1} |-> [vesselName |-> Str(<<"E">>), jobNumber |-> j,
                          pod |-> Missing]] :
            j \in {Missing, Null, Str(<<>>), Str(<<"J">>)}}

NoRequest == [op |-> "none", code |-> 0]

InitMig ==
  /\ shipments \in LegacyStores(NumShipments)
  /\ vessels \in InitialVessels
  /\ nextVesselId = Cardinality(DOMAIN vessels) + 1
  /\ last = NoRequest
  /\ cleaned = FALSE
  /\ execClean = FALSE
  /\ runs = [p \in Procs |-> IdleRun]
  /\ cleanupRun = IdleCleanup

NextMig ==
  \/ AnalyzeMigration
  \/ ExecuteMigration
  \/ VerifyMigration
  \/ RollbackMigration
  \/ CleanupOldFields

\* the migration phases alone, run one after the other
SpecMig == InitMig /\ [][NextMig]_vars

\* a store with one legacy shipment and no Vessel yet
Init ==
  /\ shipments \in LegacyStores(MaxShipments - 1)
  /\ vessels = <<>>
  /\ nextVesselId = 1
  /\ last = NoRequest
  /\ cleaned = FALSE
  /\ execClean = FALSE
  /\ runs = [p \in Procs |-> IdleRun]
  /\ cleanupRun = IdleCleanup

Next ==
  \/ AnalyzeMigration
  \/ ExecuteMigration
  \/ VerifyMigration
  \/ RollbackMigration
  \/ CleanupOldFields
  \/ CreateShipment
  \/ CreateShipmentLegacy
  \/ UpdateShipment
  \/ BulkAssignVessel

\* the migration phases and the shipment handlers, run one after the other
Spec == Init /\ [][Next]_vars

\* a store of legacy shipments, with or without a Vessel
InitDel ==
  /\ shipments \in LegacyStores(MaxShipments)
  /\ vessels \in InitialVessels
  /\ nextVesselId = Cardinality(DOMAIN vessels) + 1
  /\ last = NoRequest
  /\ cleaned = FALSE
  /\ execClean = FALSE
  /\ runs = [p \in Procs |-> IdleRun]
  /\ cleanupRun = IdleCleanup

NextDel ==
  \/ AnalyzeMigration
  \/ ExecuteMigration
  \/ VerifyMigration
  \/ RollbackMigration
  \/ CleanupOldFields
  \/ DeleteVessel

\* the migration phases and the deletion of Vessels, run one after the other
SpecDel == InitDel /\ [][NextDel]_vars

NextConc ==
  \/ \E p \in Procs : ExecStart(p)
  \/ \E p \in Procs : ExecFind(p)
  \/ \E p \in Procs : ExecSave(p)
  \/ \E p \in Procs : ExecUpdate(p)
  \/ \E p \in Procs : ExecRespond(p)

\* real Execute requests served at the same time, one call per request
SpecConc == InitDel /\ [][NextConc]_vars

\* one real Execute request
FirstRun == 1

NextFail ==
  \/ ExecStart(FirstRun)
  \/ ExecFind(FirstRun)
  \/ ExecSave(FirstRun)
  \/ ExecUpdate(FirstRun)
  \/ ExecFail(FirstRun)
  \/ ExecRespond(FirstRun)

\* one real Execute request whose store calls may fail
SpecFail == InitDel /\ [][NextFail]_vars

\* the request sent after the first one was cut off
SecondRun == 2

\* a fresh real Execute, started once the first one has stopped
Resume ==
  /\ runs[FirstRun].pc = "crashed"
  /\ \/ ExecStart(SecondRun)
     \/ ExecFind(SecondRun)
     \/ ExecSave(SecondRun)
     \/ ExecUpdate(SecondRun)
     \/ ExecRespond(SecondRun)

NextCrash ==
  \/ ExecStart(FirstRun)
  \/ ExecFind(FirstRun)
  \/ ExecSave(FirstRun)
  \/ ExecUpdate(FirstRun)
  \/ ExecCrash(FirstRun)
  \/ Resume

\* a real Execute cut off after any of its store calls, then a second one
\* carried to its response
SpecCrash == InitDel /\ [][NextCrash]_vars

NextClean ==
  \/ ExecuteMigration
  \/ RollbackMigration
  \/ CreateShipmentLegacy
  \/ CleanupCheck
  \/ CleanupApply

\* a Cleanup request served while Execute, Rollback and the creation of
\* legacy shipments are served between its store calls
SpecClean == Init /\ [][NextClean]_vars

NextAll ==
  \/ NextConc
  \/ AnalyzeMigration
  \/ VerifyMigration
  \/ RollbackMigration
  \/ CleanupOldFields

\* a store with one legacy shipment, with or without a Vessel
InitAll ==
  /\ shipments \in LegacyStores(MaxShipments - 1)
  /\ vessels \in InitialVessels
  /\ nextVesselId = Cardinality(DOMAIN vessels) + 1
  /\ last = NoRequest
  /\ cleaned = FALSE
  /\ execClean = FALSE
  /\ runs = [p \in Procs |-> IdleRun]
  /\ cleanupRun = IdleCleanup

\* the five phases, the real Execute requests interleaved step by step with
\* each other and with the other phases
SpecAll == InitAll /\ [][NextAll]_vars

\* a real run of Execute: the branch taken when dryRun is not "true"
ExecuteReal == ExecuteMigration /\ last'.mode = "real"

\* a store of two legacy shipments and no Vessel
InitRepeat ==
  /\ shipments \in LegacyStores(MaxShipments)
  /\ vessels = <<>>
  /\ nextVesselId = 1
  /\ last = NoRequest
  /\ cleaned = FALSE
  /\ execClean = FALSE
  /\ runs = [p \in Procs |-> IdleRun]
  /\ cleanupRun = IdleCleanup

NextRepeat ==
  \/ ExecuteMigration
  \/ VerifyMigration

\* Execute requested again and again on a store nothing else writes to, with
\* Verify in between; a real run is never put off for ever
SpecRepeat == InitRepeat /\ [][NextRepeat]_vars /\ WF_vars(ExecuteReal)

\* ================================================================== properties
\* a shipment holds a vesselName: a non-empty string
HoldsVesselName(d) == d.vesselName.k = "str" /\ d.vesselName.s # <<>>

RealExecuteStep == last'.op = "execute" /\ last'.mode = "real"

\* C1: a real Execute made after a completed real Execute, with no shipment
\* inserted or modified in between, reports shipmentsUpdated = 0 and
\* vesselsCreated = 0 and changes neither collection.
C1_ExecuteIdempotent ==
  [][(execClean /\ RealExecuteStep) =>
       /\ last'.shipmentsUpdated = 0
       /\ last'.vesselsCreated = 0
       /\ shipments' = shipments
       /\ vessels' = vessels]_vars

\* a second real Execute has run on a store the first one migrated
C1_Witness ==
  /\ last.op = "execute" /\ last.mode = "real" /\ last.rerun
  /\ last.shipmentsUpdated = 0
  /\ MigratedIds(shipments) # {}

\* C2: Cleanup with verifyFirst absent or "true" while a shipment is
\* Unmigrated ends in a 4xx error and changes no shipment and no vessel,
\* whatever confirm is.
C2_CleanupRefused ==
  [][(/\ last'.op = "cleanup"
      /\ last'.verifyFirst \in {"absent", "true"}
      /\ UnmigratedIds(shipments) # {}) =>
       /\ last'.code \in 400..499
       /\ shipments' = shipments
       /\ vessels' = vessels]_vars

\* a confirmed Cleanup was refused
C2_Witness ==
  /\ last.op = "cleanup" /\ last.confirm = "true"
  /\ last.verifyFirst = "absent"
  /\ last.code = BadRequest
  /\ UnmigratedIds(shipments) # {}
  /\ \E i \in DOMAIN shipments : HoldsVesselName(shipments[i])

\* C10: Analyze, Verify and Execute with dryRun=true change no shipment and
\* no vessel.
C10_ReadOnlyPhases ==
  [][(\/ last'.op \in {"analyze", "verify"}
      \/ (last'.op = "execute" /\ last'.dryRun = "true")) =>
       /\ shipments' = shipments
       /\ vessels' = vessels
       /\ nextVesselId' = nextVesselId]_vars

\* a dry run was made on a store with shipments to migrate
C10_Witness ==
  /\ last.op = "execute" /\ last.dryRun = "true"
  /\ last.totalShipmentsToMigrate > 0
  /\ UnmigratedIds(shipments) # {}

\* the three classifications of a shipment
IsUnmigrated(d)    == HoldsVesselName(d) /\ d.vesselId.k = "missing"
IsMigrated(d, vs)  == d.vesselId.k = "id" /\ d.vesselId.id \in DOMAIN vs
IsVesselFree(d)    == ~HoldsVesselName(d)

ConfirmedCleanupStep ==
  /\ last'.op = "cleanup" /\ last'.mode = "done"
  /\ last'.verifyFirst \in {"absent", "true"}

\* C3: when a confirmed Cleanup with verifyFirst absent or "true" strips the
\* legacy fields, every shipment that held a non-empty vesselName just before
\* holds afterwards a vesselId that references an existing Vessel.
C3_CleanupKeepsAssociation ==
  [][ConfirmedCleanupStep =>
       \A i \in DOMAIN shipments :
         HoldsVesselName(shipments[i]) =>
           IsMigrated(shipments'[i], vessels')]_vars

\* the Vessel a shipment references, 0 when its vesselId is null or absent
LinkedVessel(d) == IF d.vesselId.k = "id" THEN d.vesselId.id ELSE 0

\* C4: after a real Execute with an empty errors[] on a store with no Migrated
\* shipment, two shipments with equal trimmed, upper-cased
\* (vesselName, jobNumber, pod) hold the same vesselId.
C4_GroupingCorrect ==
  [][(RealExecuteStep /\ last'.errors = <<>> /\ MigratedIds(shipments) = {}) =>
       \A i \in DOMAIN shipments' : \A j \in DOMAIN shipments' :
         ExecuteKey(shipments'[i]) = ExecuteKey(shipments'[j]) =>
           LinkedVessel(shipments'[i]) = LinkedVessel(shipments'[j])]_vars

EmptyJobNumber(d) == d.jobNumber \in {Null, Missing, Str(<<>>)}

\* shipments i and j name the same usable vessel and pod and have no jobNumber
SameVesselNoJob(ships, i, j) ==
  /\ HoldsVesselName(ships[i]) /\ Trim(ships[i].vesselName.s) # <<>>
  /\ ships[i].vesselName = ships[j].vesselName
  /\ ships[i].pod = ships[j].pod
  /\ EmptyJobNumber(ships[i]) /\ EmptyJobNumber(ships[j])

\* C5: shipments with the same vesselName and pod whose jobNumber is null,
\* missing or "" are linked by a real Execute to one Vessel, and at most one
\* Vessel is created for them.
C5_EmptyJobNumbersShareVessel ==
  [][RealExecuteStep =>
       \A i \in UnmigratedIds(shipments) : \A j \in UnmigratedIds(shipments) :
         SameVesselNoJob(shipments, i, j) =>
           /\ shipments'[i].vesselId.k = "id"
           /\ shipments'[i].vesselId = shipments'[j].vesselId
           /\ Cardinality({v \in DOMAIN vessels' \ DOMAIN vessels :
                 /\ vessels'[v].vesselName =
                      Str(ToUpperCase(Trim(shipments[i].vesselName.s)))
                 /\ vessels'[v].jobNumber \in {Null, Missing, Str(<<>>)}}) <= 1]_vars

\* three shipments with jobNumber null, missing and "" share one Vessel
C5_Witness ==
  /\ last.op = "execute" /\ last.mode = "real" /\ last.shipmentsUpdated >= 3
  /\ \E i \in DOMAIN shipments : \E j \in DOMAIN shipments :
       \E k \in DOMAIN shipments :
         /\ shipments[i].jobNumber = Null
         /\ shipments[j].jobNumber = Missing
         /\ shipments[k].jobNumber = Str(<<>>)
         /\ SameVesselNoJob(shipments, i, j) /\ SameVesselNoJob(shipments, j, k)
         /\ shipments[i].vesselId.k = "id"
         /\ shipments[i].vesselId = shipments[j].vesselId
         /\ shipments[j].vesselId = shipments[k].vesselId

ConfirmedRollbackStep == last'.op = "rollback" /\ last'.mode = "done"

\* C6: after a confirmed Rollback, with Cleanup never run, every
\* shipment that was Migrated is Unmigrated and the number of Vessels is the
\* same, also for shipments given a vesselId by createShipment,
\* updateShipment or bulkAssignVessel.
C6_RollbackReversible ==
  [][(ConfirmedRollbackStep /\ ~cleaned) =>
       /\ \A i \in MigratedIds(shipments) : IsUnmigrated(shipments'[i])
       /\ Cardinality(DOMAIN vessels') = Cardinality(DOMAIN vessels)]_vars

NormalName(v) == ToUpperCase(Trim(v.vesselName.s))
NormalJob(v)  == IF v.jobNumber.k = "str" THEN ToUpperCase(Trim(v.jobNumber.s))
                 ELSE <<>>

\* C7: under the migration phases run one after the other, no two Vessels
\* share the normalized (vesselName, jobNumber), an empty, null or missing
\* jobNumber counting as one value, and a lookup with the normalized values
\* of a Vessel returns that Vessel and no other.
C7_VesselsUnique ==
  /\ \A v \in DOMAIN vessels : \A w \in DOMAIN vessels :
       (v # w) =>
         <<NormalName(vessels[v]), NormalJob(vessels[v])>> #
           <<NormalName(vessels[w]), NormalJob(vessels[w])>>
  /\ \A v \in DOMAIN vessels :
       FindVessel(vessels, NormalName(vessels[v]),
                  OrNull(NormalJob(vessels[v]))) = {v}

\* a second Execute, after a Rollback, resolved both groups to the two
\* Vessels already there
C7_Witness ==
  /\ last.op = "execute" /\ last.mode = "real"
  /\ last.vesselsCreated = 0 /\ last.shipmentsUpdated >= 2
  /\ Cardinality(DOMAIN vessels) = 2
  /\ Cardinality({shipments[i].vesselId : i \in MigratedIds(shipments)}) = 2

\* C8: before Cleanup, each shipment is exactly one of Unmigrated, Migrated
\* and VesselFree.
C8_ThreeStatePartition ==
  ~cleaned =>
    \A i \in DOMAIN shipments :
      Cardinality({c \in {"unmigrated", "migrated", "vesselFree"} :
        \/ (c = "unmigrated" /\ IsUnmigrated(shipments[i]))
        \/ (c = "migrated" /\ IsMigrated(shipments[i], vessels))
        \/ (c = "vesselFree" /\ IsVesselFree(shipments[i]))}) = 1

NamedWithoutVesselId(ships) ==
  {i \in DOMAIN ships : HoldsVesselName(ships[i]) /\ ships[i].vesselId.k = "missing"}

\* C9: a shipment whose vesselName is null, missing or "" is not counted as
\* unmigrated by Analyze, Verify or Cleanup's precondition, is in no group of
\* a real Execute, and is left without a vesselId by it.
C9_NamelessNotMigrated ==
  [][/\ (last'.op \in {"analyze", "verify"}) =>
          last'.unmigratedShipments = Cardinality(NamedWithoutVesselId(shipments))
     /\ (last'.op = "cleanup" /\ last'.mode = "refused") =>
          last'.unmigrated = Cardinality(NamedWithoutVesselId(shipments))
     /\ RealExecuteStep =>
          \A i \in DOMAIN shipments :
            (~HoldsVesselName(shipments[i]) /\ shipments[i].vesselId.k = "missing") =>
              /\ i \notin last'.grouped
              /\ shipments'[i].vesselId.k = "missing"]_vars

\* C11: Rollback and Cleanup without confirm equal to "true" change no
\* shipment and no vessel, and Rollback then reports the number of shipments
\* a confirmed Rollback in the same state would modify.
C11_ConfirmationGuard ==
  [][(last'.op \in {"rollback", "cleanup"} /\ last'.confirm # "true") =>
       /\ shipments' = shipments
       /\ vessels' = vessels
       /\ last'.op = "rollback" =>
            /\ last'.mode = "preview"
            /\ last'.shipmentsToRollback =
                 Cardinality({i \in DOMAIN shipments :
                                UnsetVesselId(shipments)[i] # shipments[i]})]_vars

\* a Rollback with confirm=yes previewed a store with Migrated shipments
C11_Witness ==
  /\ last.op = "rollback" /\ last.confirm = "yes" /\ last.mode = "preview"
  /\ last.shipmentsToRollback > 0
  /\ MigratedIds(shipments) # {}

\* shipments whose vesselId is non-null and matches no Vessel
OrphanedShipments(ships, vs) ==
  {i \in DOMAIN ships : ships[i].vesselId.k = "id" /\ ships[i].vesselId.id \notin DOMAIN vs}

\* C12: when a shipment's vesselId is non-null and matches no Vessel, Verify
\* reports orphanedVesselIds >= 1 and status ISSUES_FOUND.
C12_VerifyDetectsOrphans ==
  [][(last'.op = "verify" /\ OrphanedShipments(shipments, vessels) # {}) =>
       /\ last'.orphanedVesselIds >= 1
       /\ last'.status = "ISSUES_FOUND"]_vars

\* Verify found an orphan in a store with nothing else to report
C12_Witness ==
  /\ last.op = "verify" /\ last.orphanedVesselIds >= 1
  /\ last.unmigratedShipments = 0 /\ last.mismatches = 0
  /\ last.status = "ISSUES_FOUND"
  /\ OrphanedShipments(shipments, vessels) # {}

\* C13: Verify's status is PASSED exactly when the reported
\* unmigratedShipments, orphanedVesselIds and sample mismatches are all 0,
\* and ISSUES_FOUND otherwise.
C13_VerifyStatus ==
  [][last'.op = "verify" =>
       /\ last'.status \in {"PASSED", "ISSUES_FOUND"}
       /\ (last'.status = "PASSED") <=>
            (/\ last'.unmigratedShipments = 0
             /\ last'.orphanedVesselIds = 0
             /\ last'.mismatches = 0)]_vars

\* Verify reported ISSUES_FOUND for a sample mismatch alone
C13_Witness ==
  /\ last.op = "verify" /\ last.status = "ISSUES_FOUND"
  /\ last.unmigratedShipments = 0 /\ last.orphanedVesselIds = 0
  /\ last.mismatches > 0

\* C17: a real Execute changes only the vesselId of shipments: every
\* shipment's vesselName, jobNumber and pod are the same after the run, and no
\* shipment is deleted.
C17_ExecutePreservesLegacy ==
  [][RealExecuteStep =>
       /\ DOMAIN shipments' = DOMAIN shipments
       /\ \A i \in DOMAIN shipments :
            /\ shipments'[i].vesselName = shipments[i].vesselName
            /\ shipments'[i].jobNumber = shipments[i].jobNumber
            /\ shipments'[i].pod = shipments[i].pod]_vars

\* a real Execute linked a shipment that still carries its three legacy fields
C17_Witness ==
  /\ last.op = "execute" /\ last.mode = "real" /\ last.shipmentsUpdated > 0
  /\ \E i \in MigratedIds(shipments) :
       /\ HoldsVesselName(shipments[i])
       /\ shipments[i].jobNumber.k = "str"
       /\ shipments[i].pod.k = "str"

\* C18: the vesselsToCreate and totalShipmentsToMigrate of a dry run equal the
\* vesselsCreated and shipmentsUpdated of a real Execute made immediately
\* afterwards on the same state that ends with an empty errors[].
C18_DryRunFidelity ==
  [][(/\ last.op = "execute" /\ last.mode = "dry"
      /\ RealExecuteStep /\ last'.errors = <<>>) =>
       /\ last.vesselsToCreate = last'.vesselsCreated
       /\ last.totalShipmentsToMigrate = last'.shipmentsUpdated]_vars

\* C19: after a confirmed Cleanup that passes or bypasses its precondition no
\* shipment carries vesselName, jobNumber or pod, and every shipment's
\* vesselId and the Vessel collection are unchanged.
C19_CleanupPostcondition ==
  [][(last'.op = "cleanup" /\ last'.mode = "done") =>
       /\ DOMAIN shipments' = DOMAIN shipments
       /\ \A i \in DOMAIN shipments :
            /\ shipments'[i].vesselName = Missing
            /\ shipments'[i].jobNumber = Missing
            /\ shipments'[i].pod = Missing
            /\ shipments'[i].vesselId = shipments[i].vesselId
       /\ vessels' = vessels]_vars

\* a Cleanup with verifyFirst=false stripped a store holding a linked
\* shipment and one without a vesselId
C19_Witness ==
  /\ last.op = "cleanup" /\ last.mode = "done" /\ last.verifyFirst = "false"
  /\ last.shipmentsUpdated >= 2
  /\ \E i \in DOMAIN shipments : shipments[i].vesselId.k = "id"
  /\ \E i \in DOMAIN shipments : shipments[i].vesselId.k = "missing"

\* C20: on a store with no Vessels, a real Execute creates exactly one Vessel
\* for each distinct normalized (vesselName, jobNumber, pod) among the
\* Unmigrated shipments, also for combinations that differ only in pod.
C20_OneVesselPerCombination ==
  [][(RealExecuteStep /\ DOMAIN vessels = {} /\ last'.errors = <<>>) =>
       /\ last'.vesselsCreated = Cardinality(ExecuteGroups(shipments))
       /\ Cardinality(DOMAIN vessels') = Cardinality(ExecuteGroups(shipments))]_vars

\* two Vessels share the normalized (vesselName, jobNumber)
Duplicates(vs) ==
  \E v \in DOMAIN vs : \E w \in DOMAIN vs :
    /\ v # w
    /\ NormalName(vs[v]) = NormalName(vs[w])
    /\ NormalJob(vs[v]) = NormalJob(vs[w])

\* C14: two real Execute runs whose steps interleave can each find no Vessel
\* for the same group and each insert one, so two Vessels with the same
\* normalized (vesselName, jobNumber) are reachable; as long as no run has
\* overlapped another, they are not.
C14_DuplicatesOnlyByRace ==
  (\A p \in Procs : ~runs[p].overlapped) => ~Duplicates(vessels)

\* two overlapping runs have each inserted a Vessel for the same group
C14_Witness ==
  /\ Duplicates(vessels)
  /\ \A p \in Procs :
       /\ runs[p].pc = "done" /\ runs[p].overlapped
       /\ runs[p].vesselsCreated = 1 /\ runs[p].errors = <<>>
       /\ Cardinality(ExecuteGroups(runs[p].snap)) = 1

RECURSIVE SumUpdated(_, _)
SumUpdated(rs, P) ==
  IF P = {} THEN 0
  ELSE LET p == CHOOSE x \in P : TRUE
       IN rs[p].shipmentsUpdated + SumUpdated(rs, P \ {p})

\* C15: under interleaved real Execute runs, a vesselId once set is never
\* overwritten, no shipment is modified by two runs, and the runs'
\* shipmentsUpdated add up to the number of shipments that became Migrated.
C15_NoDoubleCounting ==
  [][/\ \A i \in DOMAIN shipments :
          shipments[i].vesselId.k = "id" =>
            shipments'[i].vesselId = shipments[i].vesselId
     /\ \A p \in Procs : \A q \in Procs \ {p} :
          runs'[p].updated \cap runs'[q].updated = {}
     /\ SumUpdated(runs', Procs) = Cardinality(MigratedIds(shipments'))]_vars

\* two runs that read the same group have each linked one of its shipments
C15_Witness ==
  \E p \in Procs : \E q \in Procs \ {p} :
    /\ runs[p].pc = "done" /\ runs[q].pc = "done"
    /\ runs[p].snap = runs[q].snap
    /\ Cardinality(ExecuteGroups(runs[p].snap)) = 1
    /\ runs[p].shipmentsUpdated = 1 /\ runs[q].shipmentsUpdated = 1
    /\ Cardinality(MigratedIds(shipments)) = 2

\* C16: no step of any migration phase, in any interleaving, removes or
\* modifies an existing Vessel, and the Vessels added during a real Execute
\* that no other Execute overlapped number that run's vesselsCreated.
C16_VesselsOnlyGrow ==
  [][/\ \A v \in DOMAIN vessels :
          v \in DOMAIN vessels' /\ vessels'[v] = vessels[v]
     /\ \A p \in Procs :
          (runs[p].pc = "respond" /\ runs'[p].pc = "done" /\ ~runs[p].overlapped) =>
            Cardinality(DOMAIN vessels \ runs[p].started) = last'.vesselsCreated]_vars

\* a run that nothing overlapped added a Vessel next to the one already there
C16_Witness ==
  \E p \in Procs :
    /\ runs[p].pc = "done" /\ ~runs[p].overlapped
    /\ runs[p].vesselsCreated = 1
    /\ runs[p].started # {}
    /\ runs[p].started \subseteq DOMAIN vessels
    /\ Cardinality(DOMAIN vessels) = Cardinality(runs[p].started) + 1

\* C29 (as stated): every Execute request that carries a dryRun parameter,
\* whatever its value, is a simulation and writes nothing to the store.
C29_AnyDryRunValueSimulates ==
  [][(last'.op = "execute" /\ last'.dryRun # "absent") =>
       /\ last'.mode = "dry"
       /\ shipments' = shipments
       /\ vessels' = vessels
       /\ nextVesselId' = nextVesselId]_vars

\* C29 (amended): an Execute request is a simulation exactly when its dryRun
\* parameter is the string "true"; a simulation writes nothing, and every
\* other value, "TRUE" included, is a real run that links every shipment it
\* grouped without error.
C29_OnlyTrueSimulates ==
  [][last'.op = "execute" =>
       /\ (last'.mode = "dry") <=> (last'.dryRun = "true")
       /\ (last'.dryRun = "true") =>
            (shipments' = shipments /\ vessels' = vessels)
       /\ (last'.dryRun # "true" /\ last'.errors = <<>>) =>
            (\A i \in UnmigratedIds(shipments) : shipments'[i].vesselId.k = "id")]_vars

\* a request with dryRun=TRUE has created a Vessel and linked a shipment
C29_Witness ==
  /\ last.op = "execute" /\ last.dryRun = "TRUE"
  /\ last.mode = "real"
  /\ last.vesselsCreated > 0 /\ last.shipmentsUpdated > 0

\* the three counts of a Cleanup preview, taken from the store
PreviewCounts(r, ships) ==
  /\ r.shipmentsWithVesselName =
       Cardinality({i \in DOMAIN ships : ships[i].vesselName.k = "str"})
  /\ r.shipmentsWithPod =
       Cardinality({i \in DOMAIN ships : ships[i].pod.k = "str"})
  /\ r.shipmentsWithJobNumber =
       Cardinality({i \in DOMAIN ships : ships[i].jobNumber.k = "str"})

\* C30 (as stated): a Cleanup request without confirm=true returns the
\* preview counts with a success response in every store state, also when
\* Unmigrated shipments remain and verifyFirst is left at its default.
C30_PreviewAlwaysAvailable ==
  [][(last'.op = "cleanup" /\ last'.confirm # "true") =>
       /\ last'.code = 200
       /\ last'.mode = "preview"
       /\ PreviewCounts(last', shipments)]_vars

\* C30 (amended): a Cleanup request without confirm=true changes nothing; it
\* returns the preview counts with a success response exactly when
\* verifyFirst is given and is not "true" or no shipment matches the
\* unmigrated filter, and is refused with status 400 otherwise.
C30_PreviewUnlessRefused ==
  [][(last'.op = "cleanup" /\ last'.confirm # "true") =>
       LET checked == last'.verifyFirst \in {"absent", "true"}
           blocked == checked /\ UnmigratedIds(shipments) # {}
       IN /\ shipments' = shipments /\ vessels' = vessels
          /\ blocked => (last'.code = BadRequest /\ last'.mode = "refused")
          /\ ~blocked => /\ last'.code = 200
                         /\ last'.mode = "preview"
                         /\ PreviewCounts(last', shipments)]_vars

\* a preview request with verifyFirst left out was refused while a shipment
\* was still to be migrated
C30_Witness ==
  /\ last.op = "cleanup" /\ last.confirm = "absent"
  /\ last.verifyFirst = "absent"
  /\ last.mode = "refused" /\ last.code = BadRequest
  /\ UnmigratedIds(shipments) # {}

\* the distinct vesselId values of Migrated shipments that match no Vessel
OrphanedIds(ships, vs) ==
  {ships[i].vesselId.id : i \in OrphanedShipments(ships, vs)}

\* C25: Verify's orphanedVesselIds is the number of distinct vesselId values
\* referenced by Migrated shipments that match no existing Vessel; several
\* shipments referencing one missing Vessel count once.
C25_OrphansCountedOnce ==
  [][last'.op = "verify" =>
       last'.orphanedVesselIds =
         Cardinality(OrphanedIds(shipments, vessels))]_vars

\* C28: in every reachable state each shipment's non-null vesselId references
\* a Vessel that exists; deleteVessel in particular leaves no shipment
\* pointing at the Vessel it deleted.
C28_ReferentialIntegrity ==
  \A i \in DOMAIN shipments :
    shipments[i].vesselId.k = "id" => shipments[i].vesselId.id \in DOMAIN vessels

\* the outcome of a real Execute on the store (ships, vs), groups taken in order
ExecuteOn(ships, vs, nid, order) ==
  RunGroups([shipments |-> ships, vessels |-> vs, nextVesselId |-> nid,
             vesselsCreated |-> 0, shipmentsUpdated |-> 0, errors |-> <<>>],
            order, ships)

\* C23: on a store where Cleanup has never run, a real Execute, a confirmed
\* Rollback and a second real Execute leave every shipment with the vesselId
\* it had after the first Execute, and the second Execute reports
\* vesselsCreated = 0 and shipmentsUpdated = the Rollback's shipmentsRolledBack.
\* Stated on the Rollback step that follows a real Execute, for every order
\* in which the second Execute may take its groups.
C23_ExecuteRollbackExecute ==
  [][(/\ ConfirmedRollbackStep
      /\ last.op = "execute" /\ last.mode = "real"
      /\ ~cleaned) =>
       \A order \in Orders(ExecuteGroups(shipments')) :
         LET st == ExecuteOn(shipments', vessels', nextVesselId', order)
         IN /\ \A i \in DOMAIN shipments :
                 st.shipments[i].vesselId = shipments[i].vesselId
            /\ st.vesselsCreated = 0
            /\ st.shipmentsUpdated = last'.shipmentsRolledBack]_vars

\* a real Execute that ends with no error leaves no shipment for the
\* unmigrated filter, and a Verify made right after it reports none
CompleteAfterExecute ==
  [][/\ (RealExecuteStep /\ last'.errors = <<>>) =>
          UnmigratedIds(shipments') = {}
     /\ (/\ last.op = "execute" /\ last.mode = "real" /\ last.errors = <<>>
         /\ last'.op = "verify") =>
          last'.unmigratedShipments = 0]_vars

\* repeated runs reach a real Execute with no error and nothing unmigrated
EventuallyComplete ==
  <>(/\ last.op = "execute" /\ last.mode = "real" /\ last.errors = <<>>
     /\ UnmigratedIds(shipments) = {})

\* C24: a sequential real Execute that finishes with an empty errors[] leaves
\* no shipment Unmigrated, so a Verify right after it reports
\* unmigratedShipments = 0 and Cleanup's precondition passes; and repeated
\* Execute runs eventually reach this state from every initial store.
C24_CompletenessAfterExecute ==
  CompleteAfterExecute /\ EventuallyComplete

\* C27: when two real Execute runs overlap, all shipments with equal
\* normalized (vesselName, jobNumber, pod) that end up Migrated reference one
\* and the same Vessel.
C27_GroupingUnderOverlap ==
  (\A p \in Procs : runs[p].pc = "done") =>
    \A i \in DOMAIN shipments : \A j \in DOMAIN shipments :
      (/\ shipments[i].vesselId.k = "id"
       /\ shipments[j].vesselId.k = "id"
       /\ ExecuteKey(shipments[i]) = ExecuteKey(shipments[j])) =>
        shipments[i].vesselId = shipments[j].vesselId

\* the groups a run recorded in errors[]
FailedGroups(r) == {r.errors[n] : n \in DOMAIN r.errors}

\* C21: when the find-or-create or the shipment update of a group fails in a
\* real Execute run, exactly one errors[] entry is appended for that group and
\* the loop moves to the next group; every group not in errors[] has been
\* processed (all its shipments are linked to a Vessel the group's lookup
\* matches); and the run ends with a success response carrying the log.
C21_PartialFailureIsolation ==
  [][LET r == runs[FirstRun]
         n == runs'[FirstRun]
     IN /\ n.errors # r.errors =>
             /\ n.errors = Append(r.errors, Head(r.order))
             /\ Head(r.order) \notin FailedGroups(r)
             /\ n.order = Tail(r.order)
        /\ (r.pc = "respond" /\ n.pc = "done") =>
             /\ last'.code = 200 /\ last'.op = "execute"
             /\ last'.errors = r.errors
             /\ last'.vesselsCreated = r.vesselsCreated
             /\ last'.shipmentsUpdated = r.shipmentsUpdated
             /\ \A key \in ExecuteGroups(r.snap) \ FailedGroups(r) :
                  \A i \in GroupShipmentIds(r.snap, key) :
                    /\ shipments'[i].vesselId.k = "id"
                    /\ shipments'[i].vesselId.id \in
                         FindVessel(vessels', key.vesselName, OrNull(key.jobNumber))]_vars

\* a run answered with one group in errors[] that the store, not the
\* validation, failed, and with another group's shipment linked
C21_Witness ==
  LET r == runs[FirstRun]
  IN /\ r.pc = "done" /\ last.op = "execute" /\ last.code = 200
     /\ Len(r.errors) = 1
     /\ VesselValid(NewVessel(r.errors[1].vesselName, OrNull(r.errors[1].jobNumber),
                               OrNull(r.errors[1].pod)))
     /\ r.shipmentsUpdated = 1
     /\ Cardinality(ExecuteGroups(r.snap)) = 2

\* the Vessels that were in the store when run r took its snapshot
VesselsAtStart(r) == [v \in r.started |-> vessels[v]]

\* C22: when a real Execute stops after any prefix of its store calls and a
\* fresh real Execute is carried to completion, the shipments and the Vessels
\* are those a single uninterrupted run leaves (for one of the orders in which
\* it may take the groups), and the second run changes no shipment that
\* already had a vesselId.
C22_CrashResumeEquivalence ==
  [][runs[FirstRun].pc = "crashed" =>
       /\ \A i \in DOMAIN shipments :
            shipments[i].vesselId.k = "id" => shipments'[i] = shipments[i]
       /\ (runs[SecondRun].pc = "respond" /\ runs'[SecondRun].pc = "done") =>
            \E order \in Orders(ExecuteGroups(runs[FirstRun].snap)) :
              LET r  == runs[FirstRun]
                  st == ExecuteOn(r.snap, VesselsAtStart(r),
                                  Cardinality(r.started) + 1, order)
              IN st.shipments = shipments' /\ st.vessels = vessels']_vars

\* the first run stopped between its Vessel insert and the shipment update;
\* the second run created no Vessel and linked the shipments
C22_Witness ==
  /\ runs[FirstRun].pc = "crashed"
  /\ runs[FirstRun].vesselsCreated = 1 /\ runs[FirstRun].shipmentsUpdated = 0
  /\ runs[SecondRun].pc = "done"
  /\ runs[SecondRun].vesselsCreated = 0 /\ runs[SecondRun].shipmentsUpdated >= 1

\* C26: for every interleaving of a confirmed Cleanup (verifyFirst effectively
\* true) with a confirmed Rollback or the creation of a shipment carrying a
\* vesselName, the precondition Cleanup checked still holds when the fields
\* are stripped, so no shipment ends with its vesselName stripped and no
\* vesselId.
C26_CleanupSafeUnderRace ==
  [][(/\ cleanupRun.pc = "checked" /\ cleanupRun'.pc = "idle"
      /\ cleanupRun.confirm = "true"
      /\ cleanupRun.verifyFirst \in {"absent", "true"}) =>
       /\ UnmigratedIds(shipments) = {}
       /\ \A i \in DOMAIN shipments :
            HoldsVesselName(shipments[i]) => shipments'[i].vesselId.k = "id"]_vars

====
